---- MODULE Spec2Model ----
(***************************************************************************)
(* A model of the Lisp REPL of src/core/repl/src/runner.rs: the tokenizer  *)
(* and reader (InPort::next_token, read, read_ahead, atom), the printer    *)
(* (to_string), the environment arena (Env, EnvTree), the evaluator (eval, *)
(* Procedure::invoke, the builtins of standard_env) and the loop of run.   *)
(*                                                                         *)
(* Text is a sequence of one-character strings.  Numbers are the integers  *)
(* (the f64 values the modelled programs compute are small integers, on    *)
(* which f64 arithmetic is exact); numeric tokens are the unsigned decimal *)
(* digit strings.  The alphabets below hold no character that would make   *)
(* another token parse as f64 or Complex64 ('.', a sign inside a number,   *)
(* a lone "i"/"j", "inf", "nan"), so atom's classification is exact on the *)
(* modelled inputs.  A panic! (or a failed unwrap/index) ends the process: *)
(* it is the outcome "panic" with the panic message.                       *)
(***************************************************************************)
EXTENDS Integers, Sequences, FiniteSets, TLC

VARIABLES pc, buffer, file, line, exp, env_tree, out, panic, log, nsub,
          reread, tok, iters

vars == <<pc, buffer, file, line, exp, env_tree, out, panic, log, nsub,
          reread, tok, iters>>

(***************************************************************************)
(* Bounds of the model.                                                    *)
(***************************************************************************)
MaxSubmissions == 3
MaxDepth == 6
MaxText == 4
MaxTokText == 3
MaxIters == 4

(***************************************************************************)
(* Expressions: enum Atom and enum Exp.                                    *)
(***************************************************************************)
Sym(s) == [t |-> "Symbol", v |-> s]
Num(n) == [t |-> "Number", v |-> n]
Boolean(b) == [t |-> "Bool", v |-> b]
Str(s) == [t |-> "String", v |-> s]
List(l) == [t |-> "List", v |-> l]
Function(name) == [t |-> "Function", v |-> name]
Procedure(parameters, body, env) ==
    [t |-> "Procedure", v |-> [parameters |-> parameters, body |-> body, env |-> env]]
NoExp == [t |-> "None", v |-> 0]

\* The character classes of the token regex of next_token: optional white
\* space, then group 1, one of: ,@ | a parenthesis, quote, backquote or
\* comma | a double-quoted literal with backslash escapes | ; to the end of
\* the line | a maximal run of characters that are neither white space nor
\* a parenthesis, quote, double quote, backquote, comma or semicolon; then
\* group 2, the rest of the line.  The backquote character cannot be written
\* in a string of this language: BackQuote stands for it.
BackQuote == "<backquote>"
WhiteSpace == {" ", "\n", "\t"}
Delimiters == WhiteSpace \cup {"(", "'", "\"", BackQuote, ",", ";", ")"}
Digits == <<"0", "1", "2", "3", "4", "5", "6", "7", "8", "9">>

Drop(s, n) == SubSeq(s, n + 1, Len(s))
Take(s, n) == SubSeq(s, 1, n)

\* The length of the longest prefix of s all of whose characters are in S.
RunLen(s, S) ==
    IF \A i \in 1..Len(s) : s[i] \in S THEN Len(s)
    ELSE (CHOOSE i \in 1..Len(s) : s[i] \notin S /\ \A j \in 1..(i - 1) : s[j] \in S) - 1

\* The length of the prefix of s that "." matches greedily: up to a newline.
DotLen(s) ==
    IF \A i \in 1..Len(s) : s[i] # "\n" THEN Len(s)
    ELSE (CHOOSE i \in 1..Len(s) : s[i] = "\n" /\ \A j \in 1..(i - 1) : s[j] # "\n") - 1

\* "(?:[\\].|[^\\"])*" from position i of s, the opening quote being before
\* i: the index of the closing quote, or 0 when the literal is not closed.
RECURSIVE StrEnd(_, _)
StrEnd(s, i) ==
    IF i > Len(s) THEN 0
    ELSE IF s[i] = "\"" THEN i
    ELSE IF s[i] = "\\"
         THEN IF i + 1 <= Len(s) /\ s[i + 1] # "\n" THEN StrEnd(s, i + 2) ELSE 0
    ELSE StrEnd(s, i + 1)

\* The length of capture group 1 at the start of s (s has no leading space).
TokenLen(s) ==
    IF s = <<>> THEN 0
    ELSE IF Len(s) >= 2 /\ s[1] = "," /\ s[2] = "@" THEN 2
    ELSE IF s[1] \in {"(", "'", BackQuote, ",", ")"} THEN 1
    ELSE IF s[1] = "\"" /\ StrEnd(s, 2) > 0 THEN StrEnd(s, 2)
    ELSE IF s[1] = ";" THEN DotLen(s)
    ELSE RunLen(s, {s[i] : i \in 1..Len(s)} \ Delimiters)

\* The two capture groups: the token, and of the rest r what "." matches.
Groups(token, r) == [token |-> token, line |-> Take(r, DotLen(r))]

\* re.captures(&self.line): the token (group 1) and the rest (group 2),
\* after the leading white space of the line l.
CapturesAt(s) == Groups(Take(s, TokenLen(s)), Drop(s, TokenLen(s)))
Captures(l) == CapturesAt(Drop(l, RunLen(l, WhiteSpace)))

\* BufRead::read_line: the characters up to and including the first newline.
ReadLineLen(f) == IF DotLen(f) < Len(f) THEN DotLen(f) + 1 ELSE Len(f)

\* One iteration of the loop of InPort::next_token on the port (l, f).
\* k = "token": Some(token) is returned; k = "eof": None is returned;
\* k = "again": the loop goes round with the port (line, file).
Matched(c, f1) ==
    [k |-> IF c.token # <<>> /\ c.token[1] # ";" THEN "token" ELSE "again",
     token |-> c.token, line |-> c.line, file |-> f1]

LoopIter(l, f) ==
    IF l = <<>> /\ f = <<>> THEN [k |-> "eof", token |-> <<>>, line |-> l, file |-> f]
    ELSE IF l = <<>>
         THEN Matched(Captures(Take(f, ReadLineLen(f))), Drop(f, ReadLineLen(f)))
    ELSE Matched(Captures(l), f)

\* InPort::next_token.  An iteration that returns nothing and leaves the
\* port as it found it repeats forever: k = "hang".
RECURSIVE next_token(_, _)
NextIter(l, f, r) ==
    IF r.k # "again" THEN r
    ELSE IF r.line = l /\ r.file = f THEN [r EXCEPT !.k = "hang"]
    ELSE next_token(r.line, r.file)

next_token(l, f) == NextIter(l, f, LoopIter(l, f))

(***************************************************************************)
(* The reader: atom, read_ahead, read.                                     *)
(***************************************************************************)
IsDigit(c) == \E i \in 1..10 : Digits[i] = c
DigitValue(c) == (CHOOSE i \in 1..10 : Digits[i] = c) - 1

\* token.parse::<f64>() on a string of decimal digits.
RECURSIVE ParseNumber(_)
ParseNumber(token) ==
    IF token = <<>> THEN 0
    ELSE 10 * ParseNumber(Take(token, Len(token) - 1)) + DigitValue(token[Len(token)])

\* Whether token.parse::<f64>() succeeds, on the modelled alphabets.
IsNumberToken(token) == token # <<>> /\ \A i \in 1..Len(token) : IsDigit(token[i])

\* atom: #t, #f, a string literal, a number, else a symbol.  The string
\* slice token[1..=token.len() - 1] runs from index 1 to the last index
\* included: it drops the opening quote and keeps the closing one.
atom(token) ==
    IF token = <<"#", "t">> THEN Boolean(TRUE)
    ELSE IF token = <<"#", "f">> THEN Boolean(FALSE)
    ELSE IF token[1] = "\"" THEN Str(SubSeq(token, 2, Len(token)))
    ELSE IF IsNumberToken(token) THEN Num(ParseNumber(token))
    ELSE Sym(token)

in_quotes(s) == s = <<"'">> \/ s = <<BackQuote>> \/ s = <<",">> \/ s = <<",", "@">>

\* The result of a reader call: k = "exp" with the expression and the port
\* after it, "eof" (None), "panic" with the message, or "hang".
ReadResult(k, e, l, f, msg) == [k |-> k, exp |-> e, line |-> l, file |-> f, msg |-> msg]

RECURSIVE read_ahead(_, _, _)
RECURSIVE ReadList(_, _, _)
RECURSIVE read(_, _)

\* The quote case of read_ahead: r is what read(port) gave after the marker.
Quoted(token, r) ==
    IF r.k = "eof" THEN ReadResult("panic", NoExp, r.line, r.file, "Unexpected EOF")
    ELSE IF r.k = "exp"
         THEN ReadResult("exp", List(<<Sym(token), r.exp>>), r.line, r.file, "")
    ELSE r

\* read_ahead(port, token), the port being (l, f).
read_ahead(l, f, token) ==
    IF token = <<"(">> THEN ReadList(l, f, <<>>)
    ELSE IF token = <<")">> THEN ReadResult("panic", NoExp, l, f, "Unexpected ')")
    ELSE IF in_quotes(token) THEN Quoted(token, read(l, f))
    ELSE ReadResult("exp", atom(token), l, f, "")

\* list.push(read_ahead(port, next)): r is what read_ahead gave.
Pushed(list, r) ==
    IF r.k = "exp" THEN ReadList(r.line, r.file, Append(list, r.exp)) ELSE r

\* One round of the loop of read_ahead after an opening parenthesis: n is
\* what next_token gave, list holds the elements read so far.
ListToken(list, n) ==
    IF n.k = "eof" THEN ReadResult("panic", NoExp, n.line, n.file, "End of Input")
    ELSE IF n.k = "hang" THEN ReadResult("hang", NoExp, n.line, n.file, "")
    ELSE IF n.token = <<")">> THEN ReadResult("exp", List(list), n.line, n.file, "")
    ELSE Pushed(list, read_ahead(n.line, n.file, n.token))

ReadList(l, f, list) == ListToken(list, next_token(l, f))

\* port.next_token().map(|t| read_ahead(port, t)): n is what next_token gave.
ReadToken(n) ==
    IF n.k = "eof" THEN ReadResult("eof", NoExp, n.line, n.file, "")
    ELSE IF n.k = "hang" THEN ReadResult("hang", NoExp, n.line, n.file, "")
    ELSE read_ahead(n.line, n.file, n.token)

\* read(port) and parse(input).
read(l, f) == ReadToken(next_token(l, f))

(***************************************************************************)
(* The printer: to_string.                                                 *)
(***************************************************************************)
\* format!("{n}") of a non-negative integral f64.
RECURSIVE FormatNat(_)
FormatNat(n) ==
    IF n < 10 THEN <<Digits[n + 1]>>
    ELSE Append(FormatNat(n \div 10), Digits[(n % 10) + 1])

FormatNumber(n) == IF n < 0 THEN <<"-">> \o FormatNat(0 - n) ELSE FormatNat(n)

RECURSIVE to_string(_)
RECURSIVE JoinStrings(_)
\* list.iter().map(to_string).collect::<Vec<_>>().join(" ")
JoinStrings(list) ==
    IF list = <<>> THEN <<>>
    ELSE IF Len(list) = 1 THEN to_string(list[1])
    ELSE to_string(list[1]) \o <<" ">> \o JoinStrings(Tail(list))

to_string(x) ==
    CASE x.t = "Bool" -> IF x.v THEN <<"#", "t">> ELSE <<"#", "f">>
      [] x.t = "Symbol" -> x.v
      [] x.t = "Number" -> FormatNumber(x.v)
      [] x.t = "String" -> <<"\"">> \o x.v \o <<"\"">>
      [] x.t = "List" -> <<"(">> \o JoinStrings(x.v) \o <<")">>
      [] x.t = "Function" ->
            <<"<", "f", "u", "n", "c", "t", "i", "o", "n", ">">>
      [] x.t = "Procedure" ->
            <<"<", "p", "r", "o", "c", "e", "d", "u", "r", "e", ">">>

\* impl PartialEq for Exp: atoms and lists compare by structure, a Function
\* or a Procedure equals nothing.
RECURSIVE ExpEq(_, _)
ExpEq(a, b) ==
    IF a.t \in {"Symbol", "Number", "Bool", "String"}
    THEN b.t = a.t /\ a.v = b.v
    ELSE IF a.t = "List"
    THEN /\ b.t = "List"
         /\ Len(a.v) = Len(b.v)
         /\ \A i \in 1..Len(a.v) : ExpEq(a.v[i], b.v[i])
    ELSE FALSE

(***************************************************************************)
(* The environment arena: struct Env and EnvTree.  A frame id is the index *)
(* of the frame in env_tree (a SlotMap from which nothing is removed hands *)
(* out fresh keys in order); outer = 0 is None.                            *)
(***************************************************************************)
Env(outer, symbols) == [outer |-> outer, symbols |-> symbols]

\* HashMap::insert on the symbols of one frame.
MapInsert(symbols, symbol, value) ==
    [s \in DOMAIN symbols \cup {symbol} |-> IF s = symbol THEN value ELSE symbols[s]]

\* Mutant of insert: the binding lands in the parent of the frame id.
insert_outer(tree, id, symbol, value) ==
    IF tree[id].outer = 0
    THEN [tree EXCEPT ![id].symbols = MapInsert(tree[id].symbols, symbol, value)]
    ELSE [tree EXCEPT ![tree[id].outer].symbols =
                          MapInsert(tree[tree[id].outer].symbols, symbol, value)]

\* Env::insert on the frame id of tree.
insert(tree, id, symbol, value) ==
    [tree EXCEPT ![id].symbols = MapInsert(tree[id].symbols, symbol, value)]

Min(a, b) == IF a < b THEN a ELSE b

\* Mutant of insert_into: result.outer is left at its default, None.
insert_into_rootless(tree, parameters, arguments, outer) ==
    LET n == Min(Len(parameters), Len(arguments))
        last(s) == CHOOSE i \in 1..n : parameters[i] = s /\ \A j \in (i + 1)..n : parameters[j] # s
        symbols == [s \in {parameters[i] : i \in 1..n} |-> arguments[last(s)]]
    IN Append(tree, Env(0, symbols))

\* Env::insert_into: the new frame binds the zip of parameters and arguments
\* (the shorter governs, a later duplicate parameter wins) and is appended.
insert_into(tree, parameters, arguments, outer) ==
    LET n == Min(Len(parameters), Len(arguments))
        last(s) == CHOOSE i \in 1..n : parameters[i] = s /\ \A j \in (i + 1)..n : parameters[j] # s
        symbols == [s \in {parameters[i] : i \in 1..n} |-> arguments[last(s)]]
    IN Append(tree, Env(outer, symbols))

Found(ok, v, msg) == [ok |-> ok, v |-> v, msg |-> msg]

\* Env::resolve from the frame id.
RECURSIVE resolve(_, _, _)
resolve(tree, id, s) ==
    IF s \in DOMAIN tree[id].symbols THEN Found(TRUE, tree[id].symbols[s], "")
    ELSE IF tree[id].outer # 0
         THEN IF tree[id].outer \in 1..Len(tree) THEN resolve(tree, tree[id].outer, s)
              ELSE Found(FALSE, NoExp, "Env not found")
    ELSE Found(FALSE, NoExp, "Symbol not found")

\* Mutant of find: the frame current is taken without a search.
find_current(tree, s, current) == Found(TRUE, current, "")

\* Env::find from the frame current: the id of the frame that binds s.
RECURSIVE find(_, _, _)
find(tree, s, current) ==
    IF s \in DOMAIN tree[current].symbols THEN Found(TRUE, current, "")
    ELSE IF tree[current].outer # 0
         THEN IF tree[current].outer \in 1..Len(tree) THEN find(tree, s, tree[current].outer)
              ELSE Found(FALSE, 0, "called Option::unwrap() on a None value")
    ELSE Found(FALSE, 0, "Symbol not found")

(***************************************************************************)
(* The builtins of standard_env.  Modelled: those whose results stay       *)
(* within the integers, booleans and lists; "/", "expt", "round", "print"  *)
(* and "pi" are left out and no modelled program names them.               *)
(***************************************************************************)
BuiltinNames ==
    {<<"+">>,
     <<"-">>,
     <<"*">>,
     <<"<", "=">>,
     <<">", "=">>,
     <<"<">>,
     <<">">>,
     <<"a", "b", "s">>,
     <<"a", "p", "p", "e", "n", "d">>,
     <<"a", "p", "p", "l", "y">>,
     <<"b", "e", "g", "i", "n">>,
     <<"c", "a", "r">>,
     <<"c", "d", "r">>,
     <<"c", "o", "n", "s">>,
     <<"=">>,
     <<"e", "q", "u", "a", "l", "?">>,
     <<"l", "e", "n", "g", "t", "h">>,
     <<"l", "i", "s", "t">>,
     <<"l", "i", "s", "t", "?">>,
     <<"m", "a", "p">>,
     <<"m", "a", "x">>,
     <<"m", "i", "n">>,
     <<"n", "o", "t">>,
     <<"n", "u", "l", "l", "?">>,
     <<"n", "u", "m", "b", "e", "r", "?">>,
     <<"p", "r", "o", "c", "e", "d", "u", "r", "e", "?">>,
     <<"s", "y", "m", "b", "o", "l", "?">>}

standard_env == Env(0, [s \in BuiltinNames |-> Function(s)])

IndexPanic == "index out of bounds"

\* Exp::as_number, as_bool and as_exp_list, with their panics.
as_number(x) ==
    IF x.t = "Number" THEN Found(TRUE, x.v, "") ELSE Found(FALSE, 0, "Expected number!")

as_bool(x) ==
    IF x.t = "Bool" THEN Found(TRUE, x.v, "")
    ELSE IF x.t = "List" THEN Found(TRUE, x.v # <<>>, "")
    ELSE Found(FALSE, FALSE, "Expected boolean!")

as_exp_list(x) ==
    IF x.t = "List" THEN Found(TRUE, x.v, "") ELSE Found(FALSE, <<>>, "Expected list")

\* The binary numeric builtins: list[0].as_number() op list[1].as_number().
Binary(name, a, b) ==
    CASE name = <<"+">> -> Num(a + b)
      [] name = <<"-">> -> Num(a - b)
      [] name = <<"*">> -> Num(a * b)
      [] name = <<"<", "=">> -> Boolean(a <= b)
      [] name = <<">", "=">> -> Boolean(a >= b)
      [] name = <<"<">> -> Boolean(a < b)
      [] name = <<">">> -> Boolean(a > b)
      [] name = <<"=">> -> Boolean(a = b)

BinaryNames == {<<"+">>, <<"-">>, <<"*">>, <<"<", "=">>, <<">", "=">>, <<"<">>, <<">">>, <<"=">>}

BinaryNative(name, list) ==
    IF Len(list) < 1 THEN Found(FALSE, NoExp, IndexPanic)
    ELSE IF ~as_number(list[1]).ok THEN Found(FALSE, NoExp, as_number(list[1]).msg)
    ELSE IF Len(list) < 2 THEN Found(FALSE, NoExp, IndexPanic)
    ELSE IF ~as_number(list[2]).ok THEN Found(FALSE, NoExp, as_number(list[2]).msg)
    ELSE Found(TRUE, Binary(name, list[1].v, list[2].v), "")

\* list.iter().flat_map(|x| x.as_exp_list()).collect()
RECURSIVE Flatten(_)
Flatten(list) ==
    IF list = <<>> THEN <<>> ELSE list[1].v \o Flatten(Tail(list))

\* max_by / min_by over the numbers of list (non-empty).
Extreme(name, list) ==
    LET ns == {list[i].v : i \in 1..Len(list)}
    IN IF name = <<"m", "a", "x">>
       THEN CHOOSE n \in ns : \A m \in ns : m <= n
       ELSE CHOOSE n \in ns : \A m \in ns : n <= m

\* The builtins that use only their arguments.
UnaryNative(name, list) ==
    IF name = <<"l", "i", "s", "t">> THEN Found(TRUE, List(list), "")
    ELSE IF name = <<"a", "p", "p", "e", "n", "d">>
    THEN IF \E i \in 1..Len(list) : list[i].t # "List"
         THEN Found(FALSE, NoExp, "Expected list")
         ELSE Found(TRUE, List(Flatten(list)), "")
    ELSE IF name \in {<<"m", "a", "x">>, <<"m", "i", "n">>}
    THEN IF \E i \in 1..Len(list) : list[i].t # "Number"
         THEN Found(FALSE, NoExp, "Expected number!")
         ELSE IF list = <<>> THEN Found(FALSE, NoExp, "Expected non-empty list")
         ELSE Found(TRUE, Num(Extreme(name, list)), "")
    ELSE IF list = <<>> THEN Found(FALSE, NoExp, IndexPanic)
    ELSE IF name = <<"b", "e", "g", "i", "n">> THEN Found(TRUE, list[Len(list)], "")
    ELSE IF name = <<"a", "b", "s">>
    THEN IF ~as_number(list[1]).ok THEN Found(FALSE, NoExp, as_number(list[1]).msg)
         ELSE Found(TRUE, Num(IF list[1].v < 0 THEN 0 - list[1].v ELSE list[1].v), "")
    ELSE IF name = <<"n", "o", "t">>
    THEN IF ~as_bool(list[1]).ok THEN Found(FALSE, NoExp, as_bool(list[1]).msg)
         ELSE Found(TRUE, Boolean(~as_bool(list[1]).v), "")
    ELSE IF name = <<"l", "i", "s", "t", "?">> THEN Found(TRUE, Boolean(list[1].t = "List"), "")
    ELSE IF name = <<"n", "u", "m", "b", "e", "r", "?">>
    THEN Found(TRUE, Boolean(list[1].t = "Number"), "")
    ELSE IF name = <<"s", "y", "m", "b", "o", "l", "?">>
    THEN Found(TRUE, Boolean(list[1].t = "Symbol"), "")
    ELSE IF name = <<"p", "r", "o", "c", "e", "d", "u", "r", "e", "?">>
    THEN Found(TRUE, Boolean(list[1].t \in {"Function", "Procedure"}), "")
    ELSE IF name = <<"e", "q", "u", "a", "l", "?">>
    THEN IF Len(list) < 2 THEN Found(FALSE, NoExp, IndexPanic)
         ELSE Found(TRUE, Boolean(ExpEq(list[1], list[2])), "")
    ELSE IF name = <<"c", "o", "n", "s">>
    THEN IF Len(list) < 2 THEN Found(FALSE, NoExp, IndexPanic)
         ELSE IF ~as_exp_list(list[2]).ok THEN Found(FALSE, NoExp, as_exp_list(list[2]).msg)
         ELSE Found(TRUE, List(<<list[1]>> \o list[2].v), "")
    ELSE IF ~as_exp_list(list[1]).ok THEN Found(FALSE, NoExp, as_exp_list(list[1]).msg)
    ELSE IF name = <<"c", "a", "r">>
    THEN IF list[1].v = <<>> THEN Found(FALSE, NoExp, IndexPanic)
         ELSE Found(TRUE, list[1].v[1], "")
    ELSE IF name = <<"c", "d", "r">> 
    THEN Found(TRUE, List(IF list[1].v = <<>> THEN <<>> ELSE Tail(list[1].v)), "")
    ELSE IF name = <<"l", "e", "n", "g", "t", "h">> THEN Found(TRUE, Num(Len(list[1].v)), "")
    ELSE Found(TRUE, Boolean(list[1].v = <<>>), "")

PureNative(name, list) ==
    IF name \in BinaryNames THEN BinaryNative(name, list) ELSE UnaryNative(name, list)

(***************************************************************************)
(* The evaluator: eval, Exp::invoke, Procedure::invoke, apply and map.     *)
(* A result carries the arena and the invocation log as the call left      *)
(* them.  st = "ok": val is the value; st = "panic": the process ended     *)
(* with msg; st = "overflow": the recursion went deeper than MaxDepth      *)
(* nested calls of eval (the call stack is exhausted, which is fatal).     *)
(* log is a history of Procedure::invoke: one entry per call, naming the   *)
(* frame it created and the frame the procedure captured.                  *)
(***************************************************************************)
Result(st, val, tree, lg, msg) == [st |-> st, val |-> val, tree |-> tree, log |-> lg, msg |-> msg]
Ok(val, tree, lg) == Result("ok", val, tree, lg, "")
Panic(msg, tree, lg) == Result("panic", NoExp, tree, lg, msg)

SymQuote == <<"q", "u", "o", "t", "e">>
SymIf == <<"i", "f">>
SymDefine == <<"d", "e", "f", "i", "n", "e">>
SymSet == <<"s", "e", "t", "!">>
SymLambda == <<"l", "a", "m", "b", "d", "a">>

\* Exp::is_symbol
is_symbol(x, symbol) == x.t = "Symbol" /\ x.v = symbol

\* Exp::as_symbol_list on a List: every element is a symbol.
AllSymbols(l) == \A i \in 1..Len(l) : l[i].t = "Symbol"

\* A panic of an accessor or a lookup r becomes the panic of the call.
Lift(r, tree, lg) == IF r.ok THEN Ok(r.v, tree, lg) ELSE Panic(r.msg, tree, lg)

RECURSIVE eval(_, _, _, _, _)
RECURSIVE EvalArgs(_, _, _, _, _, _)
RECURSIVE invoke(_, _, _, _, _)
RECURSIVE MapInvoke(_, _, _, _, _, _)

\* The body of a Procedure evaluated in the frame just inserted, the last
\* of t1.
InvokeBody(p, t1, lg, fuel) ==
    eval(p.body, t1, Append(lg, [frame |-> Len(t1), env |-> p.env]), Len(t1), fuel)

\* Mutant of Procedure::invoke: the new frame hangs under the newest frame
\* of the arena, not under the captured one.
ProcedureInvokeNewest(p, tree, lg, arguments, fuel) ==
    InvokeBody(p, insert_into(tree, p.parameters, arguments, Len(tree)), lg, fuel)

\* Procedure::invoke: one new frame whose outer is the captured frame, then
\* the body evaluated in it.
ProcedureInvoke(p, tree, lg, arguments, fuel) ==
    InvokeBody(p, insert_into(tree, p.parameters, arguments, p.env), lg, fuel)

\* One item of the builtin map: r is what list[0].invoke gave on it.
MapCollect(f, items, acc, r, fuel) ==
    IF r.st # "ok" THEN r
    ELSE MapInvoke(f, Tail(items), Append(acc, r.val), r.tree, r.log, fuel)

\* The iterator of the builtin map: list[0] invoked on each item in order.
MapInvoke(f, items, acc, tree, lg, fuel) ==
    IF items = <<>> THEN Ok(List(acc), tree, lg)
    ELSE MapCollect(f, items, acc, invoke(f, tree, lg, <<items[1]>>, fuel), fuel)

\* A builtin called on the evaluated arguments list.
Native(name, tree, lg, list, fuel) ==
    IF name = <<"a", "p", "p", "l", "y">>
    THEN IF list = <<>> THEN Panic(IndexPanic, tree, lg)
         ELSE invoke(list[1], tree, lg, Tail(list), fuel)
    ELSE IF name = <<"m", "a", "p">>
    THEN IF Len(list) < 2 THEN Panic(IndexPanic, tree, lg)
         ELSE IF list[2].t # "List" THEN Panic("Expected list", tree, lg)
         ELSE MapInvoke(list[1], list[2].v, <<>>, tree, lg, fuel)
    ELSE Lift(PureNative(name, list), tree, lg)

\* Exp::invoke
invoke(f, tree, lg, args, fuel) ==
    IF f.t = "Function" THEN Native(f.v, tree, lg, args, fuel)
    ELSE IF f.t = "Procedure" THEN ProcedureInvoke(f.v, tree, lg, args, fuel)
    ELSE Panic("Expected function!", tree, lg)

\* (if test then else), c being the result of the test.
IfBranch(list, c, env_id, fuel) ==
    IF c.st # "ok" THEN c
    ELSE IF c.val.t \notin {"Bool", "List"} THEN Panic("Expected boolean!", c.tree, c.log)
    ELSE IF Len(list) < (IF as_bool(c.val).v THEN 3 ELSE 4)
         THEN Panic(IndexPanic, c.tree, c.log)
    ELSE eval(IF as_bool(c.val).v THEN list[3] ELSE list[4], c.tree, c.log, env_id, fuel - 1)

EvalIf(list, tree, lg, env_id, fuel) ==
    IF Len(list) < 2 THEN Panic(IndexPanic, tree, lg)
    ELSE IfBranch(list, eval(list[2], tree, lg, env_id, fuel - 1), env_id, fuel)

\* (define symbol e), r being the result of e: bound in the frame env_id.
DefineBind(list, r, env_id) ==
    IF r.st # "ok" THEN r
    ELSE IF list[2].t # "Symbol" THEN Panic("Expected symbol!", r.tree, r.log)
    ELSE Ok(r.val, insert(r.tree, env_id, list[2].v, r.val), r.log)

EvalDefine(list, tree, lg, env_id, fuel) ==
    IF Len(list) < 3 THEN Panic(IndexPanic, tree, lg)
    ELSE DefineBind(list, eval(list[3], tree, lg, env_id, fuel - 1), env_id)

\* (set! symbol e), target_id being what find gave: the binding is
\* overwritten in that frame.
SetInsert(list, evaluated, target_id) ==
    IF ~target_id.ok THEN Panic(target_id.msg, evaluated.tree, evaluated.log)
    ELSE Ok(Boolean(TRUE),
            insert(evaluated.tree, target_id.v, list[2].v, evaluated.val),
            evaluated.log)

\* (set! symbol e), evaluated being the result of e: the frame that binds
\* symbol is looked for from env_id.
SetFind(list, evaluated, env_id) ==
    IF evaluated.st # "ok" THEN evaluated
    ELSE SetInsert(list, evaluated, find(evaluated.tree, list[2].v, env_id))

EvalSet(list, tree, lg, env_id, fuel) ==
    IF Len(list) < 2 THEN Panic(IndexPanic, tree, lg)
    ELSE IF list[2].t # "Symbol" THEN Panic("Expected symbol!", tree, lg)
    ELSE IF Len(list) < 3 THEN Panic(IndexPanic, tree, lg)
    ELSE SetFind(list, eval(list[3], tree, lg, env_id, fuel - 1), env_id)

\* (lambda (parameters...) body): a Procedure that captures env_id.
EvalLambda(list, tree, lg, env_id) ==
    IF Len(list) < 2 THEN Panic(IndexPanic, tree, lg)
    ELSE IF list[2].t # "List" THEN Panic("Expected list", tree, lg)
    ELSE IF ~AllSymbols(list[2].v) THEN Panic("Expected symbol!", tree, lg)
    ELSE IF Len(list) < 3 THEN Panic(IndexPanic, tree, lg)
    ELSE Ok(Procedure([i \in 1..Len(list[2].v) |-> list[2].v[i].v], list[3], env_id), tree, lg)

\* args.push(eval(x.clone(), env_tree, env_id)), r being the result of eval.
ArgsPush(list, args, r, env_id, fuel) ==
    IF r.st # "ok" THEN r
    ELSE EvalArgs(Tail(list), Append(args, r.val), r.tree, r.log, env_id, fuel)

\* The arguments of an application evaluated left to right in env_id.
EvalArgs(list, args, tree, lg, env_id, fuel) ==
    IF list = <<>> THEN Ok(List(args), tree, lg)
    ELSE ArgsPush(list, args, eval(list[1], tree, lg, env_id, fuel), env_id, fuel)

\* proc.invoke(env_tree, args), args being the result of the arguments.
ApplyInvoke(proc, args, fuel) ==
    IF args.st # "ok" THEN args
    ELSE invoke(proc.val, args.tree, args.log, args.val.v, fuel)

\* The application case after its head: proc is the result of list[0].
ApplyArgs(list, proc, env_id, fuel) ==
    IF proc.st # "ok" THEN proc
    ELSE ApplyInvoke(proc, EvalArgs(Tail(list), <<>>, proc.tree, proc.log, env_id, fuel), fuel)

\* The application case: head evaluated, then the arguments, then invoke.
EvalApplication(list, tree, lg, env_id, fuel) ==
    ApplyArgs(list, eval(list[1], tree, lg, env_id, fuel - 1), env_id, fuel - 1)

\* eval(x, env_tree, env_id), at most fuel nested calls deep.
eval(x, tree, lg, env_id, fuel) ==
    IF fuel = 0 THEN Result("overflow", NoExp, tree, lg, "stack overflow")
    ELSE IF x.t = "Symbol" THEN Lift(resolve(tree, env_id, x.v), tree, lg)
    ELSE IF x.t # "List" THEN Ok(x, tree, lg)
    ELSE IF x.v = <<>> THEN Panic("Cannot evaluate empty list", tree, lg)
    ELSE IF is_symbol(x.v[1], SymQuote)
    THEN IF Len(x.v) < 2 THEN Panic(IndexPanic, tree, lg) ELSE Ok(x.v[2], tree, lg)
    ELSE IF is_symbol(x.v[1], SymIf) THEN EvalIf(x.v, tree, lg, env_id, fuel)
    ELSE IF is_symbol(x.v[1], SymDefine) THEN EvalDefine(x.v, tree, lg, env_id, fuel)
    ELSE IF is_symbol(x.v[1], SymSet) THEN EvalSet(x.v, tree, lg, env_id, fuel)
    ELSE IF is_symbol(x.v[1], SymLambda) THEN EvalLambda(x.v, tree, lg, env_id)
    ELSE EvalApplication(x.v, tree, lg, env_id, fuel)

(***************************************************************************)
(* The lines submitted to the REPL.                                        *)
(***************************************************************************)
\* (define x 1)
SubDefineX ==
    <<"(", "d", "e", "f", "i", "n", "e", " ", "x", " ", "1", ")">>
\* x
SubX ==
    <<"x">>
\* ((lambda (x) x) 2)
SubShadow ==
    <<"(", "(", "l", "a", "m", "b", "d", "a", " ", "(", "x", ")", " ", "x", ")", " ", "2", ")">>
\* ((lambda () (set! x 2)))
SubMutate ==
    <<"(", "(", "l", "a", "m", "b", "d", "a", " ", "(", ")", " ", "(", "s", "e", "t", "!", " ", "x", " ", "2", ")", ")", ")">>
\* ((lambda () (define x 3)))
SubLocalDefine ==
    <<"(", "(", "l", "a", "m", "b", "d", "a", " ", "(", ")", " ", "(", "d", "e", "f", "i", "n", "e", " ", "x", " ", "3", ")", ")", ")">>
\* (y 1 2)
SubUnboundHead ==
    <<"(", "y", " ", "1", " ", "2", ")">>
\* (set! z 1)
SubSetUnbound ==
    <<"(", "s", "e", "t", "!", " ", "z", " ", "1", ")">>
\* (define x 1) x (
SubTwoFormsThenEof ==
    <<"(", "d", "e", "f", "i", "n", "e", " ", "x", " ", "1", ")", " ", "x", " ", "(">>
\* 'x
SubQuoteMark ==
    <<"'", "x">>
\* (quote x)
SubQuoteForm ==
    <<"(", "q", "u", "o", "t", "e", " ", "x", ")">>
\* (map (lambda (a) (+ a x)) (list 1 2))
SubMap ==
    <<"(", "m", "a", "p", " ", "(", "l", "a", "m", "b", "d", "a", " ", "(", "a", ")", " ", "(", "+", " ", "a", " ", "x", ")", ")", " ", "(", "l", "i", "s", "t", " ", "1", " ", "2", ")", ")">>
\* (apply (lambda (a) a) 5)
SubApply ==
    <<"(", "a", "p", "p", "l", "y", " ", "(", "l", "a", "m", "b", "d", "a", " ", "(", "a", ")", " ", "a", ")", " ", "5", ")">>
\* (define k (lambda () x)) ((lambda (x) (k)) 5)
SubLexical ==
    <<"(", "d", "e", "f", "i", "n", "e", " ", "k", " ", "(", "l", "a", "m", "b", "d", "a", " ", "(", ")", " ", "x", ")", ")", " ", "(", "(", "l", "a", "m", "b", "d", "a", " ", "(", "x", ")", " ", "(", "k", ")", ")", " ", "5", ")">>
\* ((lambda (x) ((lambda () (set! x 9)))) 5)
SubNearest ==
    <<"(", "(", "l", "a", "m", "b", "d", "a", " ", "(", "x", ")", " ", "(", "(", "l", "a", "m", "b", "d", "a", " ", "(", ")", " ", "(", "s", "e", "t", "!", " ", "x", " ", "9", ")", ")", ")", ")", " ", "5", ")">>
\* (define f (lambda () (f))) (f)
SubLoop ==
    <<"(", "d", "e", "f", "i", "n", "e", " ", "f", " ", "(", "l", "a", "m", "b", "d", "a", " ", "(", ")", " ", "(", "f", ")", ")", ")", " ", "(", "f", ")">>
\* 1 "
SubUnterminated ==
    <<"1", " ", "\"">>

Submissions ==
    {SubDefineX,
     SubX,
     SubShadow,
     SubMutate,
     SubLocalDefine,
     SubUnboundHead,
     SubSetUnbound,
     SubTwoFormsThenEof,
     SubQuoteMark,
     SubQuoteForm,
     SubMap,
     SubApply,
     SubLexical,
     SubNearest,
     SubLoop,
     SubUnterminated}

(***************************************************************************)
(* run: the REPL loop.  pc is the position in run: "read_line" (at         *)
(* line_editor.read_line), "parse" (at parse(&mut port)), "eval" (at       *)
(* eval(exp, ...)), and the ends: "exited" (the loop was left), "panicked" *)
(* (a panic ended the process; panic is its message), "overflowed" (the    *)
(* call stack was exhausted) and "hung" (next_token loops forever).        *)
(***************************************************************************)
ReplUnused == UNCHANGED <<reread, tok, iters>>

NotRead == ReadResult("none", NoExp, <<>>, <<>>, "")

Init ==
    /\ pc = "read_line"
    /\ buffer = <<>>
    /\ file = <<>>
    /\ line = <<>>
    /\ exp = NoExp
    /\ env_tree = <<standard_env>>
    /\ out = <<>>
    /\ panic = ""
    /\ log = <<>>
    /\ nsub = 0
    /\ reread = NotRead
    /\ tok = <<>>
    /\ iters = 0

\* Ok(Signal::Success(buffer)): a port over the submitted line.
ReadLine(b) ==
    /\ pc = "read_line"
    /\ nsub < MaxSubmissions
    /\ buffer' = b
    /\ file' = b
    /\ line' = <<>>
    /\ nsub' = nsub + 1
    /\ pc' = "parse"
    /\ UNCHANGED <<exp, env_tree, out, panic, log>>
    /\ ReplUnused

\* match x: None leaves the inner loop, Some(exp) goes on to eval; a panic
\* of the reader ends the process, a tokenizer that hangs never returns.
Parsed(x) ==
    /\ line' = x.line
    /\ file' = x.file
    /\ exp' = x.exp
    /\ pc' = CASE x.k = "eof" -> "read_line"
              [] x.k = "exp" -> "eval"
              [] x.k = "panic" -> "panicked"
              [] x.k = "hang" -> "hung"
    /\ panic' = IF x.k = "panic" THEN x.msg ELSE panic

\* let x = parse(&mut port): the next form of the line, or None.
Parse ==
    /\ pc = "parse"
    /\ Parsed(read(line, file))
    /\ UNCHANGED <<buffer, env_tree, out, log, nsub>>
    /\ ReplUnused

\* let result = eval(exp, &mut env_tree, standard_env_id); println!(...).
\* println!("{}", to_string(&result)) when eval returned; a panic or an
\* exhausted stack ends the process with the arena as eval left it.
Printed(result) ==
    /\ env_tree' = result.tree
    /\ log' = result.log
    /\ out' = IF result.st = "ok" THEN to_string(result.val) ELSE out
    /\ pc' = CASE result.st = "ok" -> "parse"
              [] result.st = "panic" -> "panicked"
              [] result.st = "overflow" -> "overflowed"
    /\ panic' = IF result.st = "panic" THEN result.msg ELSE panic

\* Mutant of EvalPrint: the rest of the line is dropped with the form.
EvalPrintDrain ==
    /\ pc = "eval"
    /\ Printed(eval(exp, env_tree, log, 1, MaxDepth))
    /\ file' = <<>>
    /\ line' = <<>>
    /\ UNCHANGED <<buffer, exp, nsub>>
    /\ ReplUnused

EvalPrint ==
    /\ pc = "eval"
    /\ Printed(eval(exp, env_tree, log, 1, MaxDepth))
    /\ UNCHANGED <<buffer, file, line, exp, nsub>>
    /\ ReplUnused

\* Ok(Signal::CtrlD) | Ok(Signal::CtrlC): "Aborted!" and the loop is left.
Abort ==
    /\ pc = "read_line"
    /\ out' = <<"A", "b", "o", "r", "t", "e", "d", "!">>
    /\ pc' = "exited"
    /\ UNCHANGED <<buffer, file, line, exp, env_tree, panic, log, nsub>>
    /\ ReplUnused

\* Any other result of read_line: "Event: ..." and the loop goes on.
Event ==
    /\ pc = "read_line"
    /\ out' = <<"E", "v", "e", "n", "t", ":">>
    /\ UNCHANGED <<pc, buffer, file, line, exp, env_tree, panic, log, nsub>>
    /\ ReplUnused

Next ==
    \/ \E b \in Submissions : ReadLine(b)
    \/ Parse
    \/ EvalPrint
    \/ Abort
    \/ Event

Spec == Init /\ [][Next]_vars

(***************************************************************************)
(* The reader and the printer as pure functions: a text drawn from the     *)
(* bounded texts over RTAlphabet is read (read), the expression is         *)
(* rendered (to_string) and the rendering is read again.                   *)
(***************************************************************************)
RTAlphabet == {"(", ")", "\"", "'", ",", "@", BackQuote, " ", "x", "1"}

Texts(alphabet, n) == UNION {[1..k -> alphabet] : k \in 0..n}

InitRT ==
    /\ buffer \in Texts(RTAlphabet, MaxText)
    /\ pc = "rt_read"
    /\ file = buffer
    /\ line = <<>>
    /\ exp = NoExp
    /\ env_tree = <<>>
    /\ out = <<>>
    /\ panic = ""
    /\ log = <<>>
    /\ nsub = 0
    /\ reread = NotRead
    /\ tok = <<>>
    /\ iters = 0

\* x is what read gave on the text: an expression goes on to be rendered.
RTParsed(x) ==
    /\ line' = x.line
    /\ file' = x.file
    /\ exp' = x.exp
    /\ pc' = IF x.k = "exp" THEN "rt_render" ELSE "rt_none"
    /\ panic' = IF x.k = "panic" THEN x.msg ELSE panic

RTRead ==
    /\ pc = "rt_read"
    /\ RTParsed(read(line, file))
    /\ UNCHANGED <<buffer, env_tree, out, log, nsub, reread, tok, iters>>

RTRender ==
    /\ pc = "rt_render"
    /\ out' = to_string(exp)
    /\ pc' = "rt_reread"
    /\ UNCHANGED <<buffer, file, line, exp, env_tree, panic, log, nsub, reread, tok, iters>>

RTReread ==
    /\ pc = "rt_reread"
    /\ reread' = read(<<>>, out)
    /\ pc' = "rt_done"
    /\ UNCHANGED <<buffer, file, line, exp, env_tree, out, panic, log, nsub, tok, iters>>

NextRT == RTRead \/ RTRender \/ RTReread

SpecRT == InitRT /\ [][NextRT]_vars

(***************************************************************************)
(* The tokenizer step by step: one action per iteration of the loop of     *)
(* InPort::next_token, on a port over a text drawn from the bounded texts  *)
(* over TokAlphabet.  pc = "tok_idle": between calls; "tok_loop": inside   *)
(* the loop; "tok_eof": None was returned.  iters counts the iterations of *)
(* the current call that returned nothing.                                 *)
(***************************************************************************)
TokAlphabet == {"\"", "x", " ", ";", "(", "\n", "\\"}

InitTok ==
    /\ buffer \in Texts(TokAlphabet, MaxTokText)
    /\ pc = "tok_idle"
    /\ file = buffer
    /\ line = <<>>
    /\ exp = NoExp
    /\ env_tree = <<>>
    /\ out = <<>>
    /\ panic = ""
    /\ log = <<>>
    /\ nsub = 0
    /\ reread = NotRead
    /\ tok = <<>>
    /\ iters = 0

\* port.next_token() is called.
TokCall ==
    /\ pc = "tok_idle"
    /\ pc' = "tok_loop"
    /\ iters' = 0
    /\ UNCHANGED <<buffer, file, line, exp, env_tree, out, panic, log, nsub, reread, tok>>

\* r is what one iteration of the loop did.
TokStep(r) ==
    /\ line' = r.line
    /\ file' = r.file
    /\ tok' = IF r.k = "token" THEN r.token ELSE tok
    /\ pc' = CASE r.k = "token" -> "tok_idle"
              [] r.k = "eof" -> "tok_eof"
              [] r.k = "again" -> "tok_loop"
    /\ iters' = IF r.k = "again" THEN iters + 1 ELSE iters

TokLoop ==
    /\ pc = "tok_loop"
    /\ iters < MaxIters
    /\ TokStep(LoopIter(line, file))
    /\ UNCHANGED <<buffer, exp, env_tree, out, panic, log, nsub, reread>>

NextTok == TokCall \/ TokLoop

SpecTok == InitTok /\ [][NextTok]_vars

(***************************************************************************)
(* Properties.                                                             *)
(***************************************************************************)
SpecialForms == {SymQuote, SymIf, SymDefine, SymSet, SymLambda}

\* The frames from F outward to the root, F first.
RECURSIVE ChainOf(_, _)
ChainOf(tree, F) == IF F = 0 THEN <<>> ELSE <<F>> \o ChainOf(tree, tree[F].outer)

\* The first frame of the chain of F that binds s, or 0 when none does.
Nearest(tree, F, s) ==
    LET c == ChainOf(tree, F)
        binders == {i \in 1..Len(c) : s \in DOMAIN tree[c[i]].symbols}
    IN IF binders = {} THEN 0
       ELSE c[CHOOSE i \in binders : \A j \in binders : i <= j]

\* The symbols and operands the arena is probed with.
ProbeSymbols == {<<"x">>, <<"y">>, <<"k">>, <<"f">>}
ProbeOperands == {Num(7), List(<<Sym(SymDefine), Sym(<<"x">>), Num(8)>>)}

\* x is a list whose head is a symbol, not a special form, that no frame of
\* the chain of the root frame binds.
HeadUnbound(x, tree) ==
    /\ x.t = "List"
    /\ x.v # <<>>
    /\ x.v[1].t = "Symbol"
    /\ x.v[1].v \notin SpecialForms
    /\ Nearest(tree, 1, x.v[1].v) = 0

\* C1: evaluating a form whose head symbol is unbound yields an error result
\* and does not end the process: the evaluation step of such a form leaves
\* the arena as it was and the REPL goes on (to the next form or prompt).
C1_UnboundHeadIsAnError ==
    [][(pc = "eval" /\ HeadUnbound(exp, env_tree))
        => (pc' \in {"parse", "read_line"} /\ env_tree' = env_tree)]_vars

\* C2: (set! s e) evaluated in a frame F overwrites the binding of s in the
\* nearest frame of the chain of F that binds s (once e is evaluated), with
\* the value of e, returns #t, and changes no other binding of any frame.
C2_SetOverwritesNearest ==
    \A F \in 1..Len(env_tree) : \A s \in ProbeSymbols : \A e \in ProbeOperands :
        LET ev == eval(e, env_tree, log, F, MaxDepth)
            r == eval(List(<<Sym(SymSet), Sym(s), e>>), env_tree, log, F, MaxDepth)
            owner == Nearest(ev.tree, F, s)
        IN (ev.st = "ok" /\ owner # 0)
            => /\ r.st = "ok"
               /\ r.val = Boolean(TRUE)
               /\ r.tree = [ev.tree EXCEPT ![owner].symbols[s] = ev.val]

\* C2 witness: after (define x 1) and a closure call that did (set! x 2)
\* in a frame that does not bind x, the top-level x printed 2.
C2_Witness ==
    /\ pc = "parse"
    /\ exp = Sym(<<"x">>)
    /\ out = <<"2">>
    /\ Len(env_tree) = 2
    /\ <<"x">> \notin DOMAIN env_tree[2].symbols
    /\ env_tree[1].symbols[<<"x">>] = Num(2)

\* The frame f with s bound to v and everything else as in the frame g.
SameButFor(f, g, s, v) ==
    /\ f.outer = g.outer
    /\ DOMAIN f.symbols = DOMAIN g.symbols \cup {s}
    /\ f.symbols[s] = v
    /\ \A n \in DOMAIN g.symbols \ {s} : f.symbols[n] = g.symbols[n]

\* C3: binding a symbol in a frame F, by define or by binding a closure
\* parameter, changes that frame only: (define s 7) evaluated in F changes
\* F's binding of s and nothing else in the arena, and ((lambda (s) s) 7)
\* evaluated in F returns 7, binds s in a new frame and leaves every
\* existing frame as it was.
C3_BindingIsLocal ==
    \A F \in 1..Len(env_tree) : \A s \in ProbeSymbols :
        LET d == eval(List(<<Sym(SymDefine), Sym(s), Num(7)>>), env_tree, log, F, MaxDepth)
            c == eval(List(<<List(<<Sym(SymLambda), List(<<Sym(s)>>), Sym(s)>>), Num(7)>>),
                      env_tree, log, F, MaxDepth)
        IN /\ d.st = "ok"
           /\ d.val = Num(7)
           /\ Len(d.tree) = Len(env_tree)
           /\ \A i \in 1..Len(env_tree) : i # F => d.tree[i] = env_tree[i]
           /\ SameButFor(d.tree[F], env_tree[F], s, Num(7))
           /\ c.st = "ok"
           /\ c.val = Num(7)
           /\ Len(c.tree) = Len(env_tree) + 1
           /\ \A i \in 1..Len(env_tree) : c.tree[i] = env_tree[i]
           /\ c.tree[Len(c.tree)].symbols[s] = Num(7)

\* C3 witness: after (define x 1) and ((lambda (x) x) 2), whose frame binds
\* x to 2, the top-level x printed 1.
C3_Witness ==
    /\ pc = "parse"
    /\ exp = Sym(<<"x">>)
    /\ out = <<"1">>
    /\ Len(env_tree) = 2
    /\ <<"x">> \in DOMAIN env_tree[2].symbols
    /\ env_tree[2].symbols[<<"x">>] = Num(2)
    /\ env_tree[1].symbols[<<"x">>] = Num(1)

\* x is (set! s e) with s a symbol that no frame of the chain of the root
\* frame binds.
SetUnbound(x, tree) ==
    /\ x.t = "List"
    /\ Len(x.v) = 3
    /\ is_symbol(x.v[1], SymSet)
    /\ x.v[2].t = "Symbol"
    /\ Nearest(tree, 1, x.v[2].v) = 0

\* C4: (set! s e) with s bound in no frame of the chain fails with the
\* error UnboundSymbol, a result after which the session is still there,
\* and s is still unbound in every frame of the chain afterwards.
C4_SetNeverCreates ==
    [][(pc = "eval" /\ SetUnbound(exp, env_tree))
        => (pc' \in {"parse", "read_line"} /\ Nearest(env_tree', 1, exp.v[2].v) = 0)]_vars

\* C5 (as claimed): a submission is fully read before any of its forms is
\* evaluated: when a form is about to be evaluated the port holds no
\* further token.
C5_AllReadBeforeEval == pc = "eval" => next_token(line, file).k = "eof"

\* C5 (amended): the forms of a submission are read and evaluated one at a
\* time: while a form awaits evaluation the port is not advanced, a read
\* step changes nothing in the arena, and only an evaluation step does.
C5_OneFormAtATime ==
    [][/\ pc = "eval" => (line' = line /\ file' = file /\ exp' = exp)
       /\ pc = "parse" => (env_tree' = env_tree /\ log' = log)
       /\ env_tree' # env_tree => pc = "eval"]_vars

\* C5 witness: in the first submission a reader failure (the end of the
\* input inside a list) came after an earlier form of the line bound x.
C5_Witness ==
    /\ pc = "panicked"
    /\ panic = "End of Input"
    /\ nsub = 1
    /\ <<"x">> \in DOMAIN env_tree[1].symbols

\* The text holds no quote-shorthand marker.
NoQuoteMarks(text) == \A i \in 1..Len(text) : text[i] \notin {"'", BackQuote, ","}

\* C6: an expression of atoms and lists, rendered by to_string and read
\* again, gives an expression equal to it (texts without quote shorthand).
C6_RoundTrip ==
    (pc = "rt_done" /\ NoQuoteMarks(buffer))
        => (reread.k = "exp" /\ ExpEq(reread.exp, exp))

\* The quote-shorthand marker a text starts with, or <<>>.
MarkerOf(text) ==
    IF text = <<>> THEN <<>>
    ELSE IF Len(text) >= 2 /\ text[1] = "," /\ text[2] = "@" THEN <<",", "@">>
    ELSE IF text[1] \in {"'", BackQuote, ","} THEN <<text[1]>>
    ELSE <<>>

\* The symbol a marker stands for.
Expansion(marker) ==
    CASE marker = <<"'">> -> SymQuote
      [] marker = <<BackQuote>> -> <<"q", "u", "a", "s", "i", "q", "u", "o", "t", "e">>
      [] marker = <<",">> -> <<"u", "n", "q", "u", "o", "t", "e">>
      [] marker = <<",", "@">> ->
            <<"u", "n", "q", "u", "o", "t", "e", "-", "s", "p", "l", "i", "c", "i", "n", "g">>

\* C7: a text that starts with a quote-shorthand marker followed by an
\* expression e reads as the two-element list of the symbol the marker
\* stands for (quote, quasiquote, unquote, unquote-splicing) and e.
C7_QuoteShorthand ==
    (pc = "rt_render" /\ MarkerOf(buffer) # <<>>)
        => exp = List(<<Sym(Expansion(MarkerOf(buffer))),
                        read(<<>>, Drop(buffer, Len(MarkerOf(buffer)))).exp>>)

\* The frame ids held by the Procedure values of x.
RECURSIVE ProcedureEnvs(_)
ProcedureEnvs(x) ==
    IF x.t = "Procedure" THEN {x.v.env}
    ELSE IF x.t = "List" THEN UNION {ProcedureEnvs(x.v[i]) : i \in 1..Len(x.v)}
    ELSE {}

\* The frame graph is a forest rooted at frame 1 and every frame id in use
\* names a frame of the arena.
Forest ==
    /\ Len(env_tree) >= 1
    /\ env_tree[1].outer = 0
    /\ \A i \in 2..Len(env_tree) : env_tree[i].outer \in 1..(i - 1)
    /\ \A i \in 1..Len(env_tree) : ChainOf(env_tree, i)[Len(ChainOf(env_tree, i))] = 1
    /\ \A i \in 1..Len(env_tree) : \A n \in DOMAIN env_tree[i].symbols :
            ProcedureEnvs(env_tree[i].symbols[n]) \subseteq 1..Len(env_tree)

\* No frame is removed and no frame changes its parent.
ArenaGrows ==
    /\ Len(env_tree') >= Len(env_tree)
    /\ \A i \in 1..Len(env_tree) : env_tree'[i].outer = env_tree[i].outer

\* C8: in every reachable state the frame graph is a forest: the root has no
\* parent, every other frame has one parent, a frame that was in the arena
\* before it, every chain of parents ends at the root, every frame id held
\* by a Procedure names a frame, and frames are never removed.
C8_FrameForest == [](Forest) /\ [][ArenaGrows]_vars

\* C8 witness: a frame whose parent is not the root, and a Procedure bound
\* in the arena.
C8_Witness ==
    /\ \E i \in 2..Len(env_tree) : env_tree[i].outer # 1
    /\ \E n \in DOMAIN env_tree[1].symbols : env_tree[1].symbols[n].t = "Procedure"

\* Forms that call no closure.
NoCallProbes ==
    {Num(1), Sym(<<"+">>),
     List(<<Sym(SymQuote), Sym(<<"x">>)>>),
     List(<<Sym(SymIf), Boolean(TRUE), Num(1), Num(2)>>),
     List(<<Sym(SymDefine), Sym(<<"y">>), Num(1)>>),
     List(<<Sym(SymSet), Sym(<<"+">>), Num(1)>>),
     List(<<Sym(SymLambda), List(<<Sym(<<"a">>)>>), Sym(<<"a">>)>>),
     List(<<Sym(<<"+">>), Num(1), Num(2)>>),
     List(<<Sym(<<"l", "i", "s", "t">>), Num(1), Num(2)>>)}

\* C9: every closure invocation creates exactly one frame, whose parent is
\* the frame the Procedure captured: the k-th invocation started created
\* frame k + 1 with that parent, the arena holds one frame more than there
\* were invocations, and a form that calls no closure creates no frame.
C9_OneFramePerInvocation ==
    /\ Len(env_tree) = 1 + Len(log)
    /\ \A k \in 1..Len(log) :
            /\ k + 1 <= Len(env_tree)
            /\ log[k].frame = k + 1
            /\ env_tree[k + 1].outer = log[k].env
    /\ \A e \in NoCallProbes :
            Len(eval(e, env_tree, log, 1, MaxDepth).tree) = Len(env_tree)

\* C9 witness: (k) called from the frame of ((lambda (x) (k)) 5), frame 2,
\* created frame 3 under the root, the frame k captured, and saw the root x.
C9_Witness ==
    /\ Len(env_tree) = 3
    /\ <<"x">> \in DOMAIN env_tree[2].symbols
    /\ env_tree[2].symbols[<<"x">>] = Num(5)
    /\ env_tree[3].outer = 1
    /\ out = <<"1">>

\* C10: every iteration of the loop of next_token that returns no token
\* strictly shortens the remaining input, the rest of the current line plus
\* the unread lines.
C10_IterationShortens ==
    [][(pc = "tok_loop" /\ pc' = "tok_loop")
        => Len(line') + Len(file') < Len(line) + Len(file)]_vars

====
